---- MODULE Spec2Model ----
(***************************************************************************)
(* Model of xchange.py, an interactive command-line currency converter.    *)
(*                                                                         *)
(* Text is modelled as a sequence of one-character strings, so that        *)
(* str.upper, str.lower, str.strip and float() are computed character by   *)
(* character.  A Python float is modelled as an exact rational (or inf or  *)
(* nan); binary rounding error is not modelled.  The process is modelled   *)
(* at its blocking points: the startup fetch, the three prompts and the    *)
(* two "Press Enter to continue" acknowledgments.                          *)
(***************************************************************************)
EXTENDS Integers, Sequences, FiniteSets, TLC

VARIABLES
    pc,                   \* the blocking point the process is at
    exit_status,          \* <<>> while running, <<code>> once sys.exit(code) ended it
    rates,                \* main's local `rates` (the Rate Table)
    fetches,              \* number of requests.get calls made so far
    iteration,            \* number of passes started through the while-loop body
    from_currency_input,  \* run_conversion_loop's local
    to_currency_input,    \* run_conversion_loop's local
    amount,               \* run_conversion_loop's local
    converted_amount,     \* run_conversion_loop's local
    from_iteration,       \* history: the pass in which from_currency_input was read
    to_iteration,         \* history: the pass in which to_currency_input was read
    api_response,         \* history: what requests.get produced
    last_input,           \* history: what the last input() call produced
    step                  \* history: what the last step raised, called and printed

vars == <<pc, exit_status, rates, fetches, iteration, from_currency_input,
          to_currency_input, amount, converted_amount, from_iteration,
          to_iteration, api_response, last_input, step>>

-----------------------------------------------------------------------------
(* Bounds of the model.                                                    *)

\* The while-loop of run_conversion_loop never ends; the model stops starting
\* new passes after this many.
MaxIterations == 2

-----------------------------------------------------------------------------
(* Text.                                                                   *)

LowerLetters ==
    <<"a","b","c","d","e","f","g","h","i","j","k","l","m",
      "n","o","p","q","r","s","t","u","v","w","x","y","z">>

UpperLetters ==
    <<"A","B","C","D","E","F","G","H","I","J","K","L","M",
      "N","O","P","Q","R","S","T","U","V","W","X","Y","Z">>

Whitespace == {" ", "\t", "\n", "\r", "\f"}

DigitChars == <<"0","1","2","3","4","5","6","7","8","9">>

IndexOf(c, alphabet) == CHOOSE i \in 1..Len(alphabet) : alphabet[i] = c

IsIn(c, alphabet) == \E i \in 1..Len(alphabet) : alphabet[i] = c

UpperChar(c) == IF IsIn(c, LowerLetters) THEN UpperLetters[IndexOf(c, LowerLetters)] ELSE c

LowerChar(c) == IF IsIn(c, UpperLetters) THEN LowerLetters[IndexOf(c, UpperLetters)] ELSE c

\* str.upper()
upper(s) == [i \in 1..Len(s) |-> UpperChar(s[i])]

\* str.lower()
lower(s) == [i \in 1..Len(s) |-> LowerChar(s[i])]

RECURSIVE lstrip(_)
lstrip(s) == IF s # <<>> /\ Head(s) \in Whitespace THEN lstrip(Tail(s)) ELSE s

RECURSIVE rstrip(_)
rstrip(s) ==
    IF s # <<>> /\ s[Len(s)] \in Whitespace THEN rstrip(SubSeq(s, 1, Len(s) - 1)) ELSE s

\* str.strip()
strip(s) == rstrip(lstrip(s))

-----------------------------------------------------------------------------
(* The Currency Registry.                                                  *)

SUPPORTED_EXCHANGES == {
    <<"A","D","A">>, <<"A","E","D">>, <<"A","F","N">>, <<"A","L","L">>, <<"A","M","D">>, <<"A","N","G">>,
    <<"A","O","A">>, <<"A","R","B">>, <<"A","R","S">>, <<"A","U","D">>, <<"A","W","G">>, <<"A","Z","N">>,
    <<"B","A","M">>, <<"B","B","D">>, <<"B","D","T">>, <<"B","G","N">>, <<"B","H","D">>, <<"B","I","F">>,
    <<"B","M","D">>, <<"B","N","B">>, <<"B","N","D">>, <<"B","O","B">>, <<"B","R","L">>, <<"B","S","D">>,
    <<"B","T","C">>, <<"B","T","N">>, <<"B","W","P">>, <<"B","Y","N">>, <<"B","Y","R">>, <<"B","Z","D">>,
    <<"C","A","D">>, <<"C","D","F">>, <<"C","H","F">>, <<"C","L","F">>, <<"C","L","P">>, <<"C","N","Y">>,
    <<"C","O","P">>, <<"C","R","C">>, <<"C","U","C">>, <<"C","U","P">>, <<"C","V","E">>, <<"C","Z","K">>,
    <<"D","A","I">>, <<"D","J","F">>, <<"D","K","K">>, <<"D","O","P">>, <<"D","O","T">>, <<"D","Z","D">>,
    <<"E","G","P">>, <<"E","R","N">>, <<"E","T","B">>, <<"E","T","H">>, <<"E","U","R">>, <<"F","J","D">>,
    <<"F","K","P">>, <<"G","B","P">>, <<"G","E","L">>, <<"G","G","P">>, <<"G","H","S">>, <<"G","I","P">>,
    <<"G","M","D">>, <<"G","N","F">>, <<"G","T","Q">>, <<"G","Y","D">>, <<"H","K","D">>, <<"H","N","L">>,
    <<"H","R","K">>, <<"H","T","G">>, <<"H","U","F">>, <<"I","D","R">>, <<"I","L","S">>, <<"I","M","P">>,
    <<"I","N","R">>, <<"I","Q","D">>, <<"I","R","R">>, <<"I","S","K">>, <<"J","E","P">>, <<"J","M","D">>,
    <<"J","O","D">>, <<"J","P","Y">>, <<"K","E","S">>, <<"K","G","S">>, <<"K","H","R">>, <<"K","M","F">>,
    <<"K","P","W">>, <<"K","R","W">>, <<"K","W","D">>, <<"K","Y","D">>, <<"K","Z","T">>, <<"L","A","K">>,
    <<"L","B","P">>, <<"L","K","R">>, <<"L","R","D">>, <<"L","S","L">>, <<"L","T","C">>, <<"L","T","L">>,
    <<"L","V","L">>, <<"L","Y","D">>, <<"M","A","D">>, <<"M","D","L">>, <<"M","G","A">>, <<"M","K","D">>,
    <<"M","M","K">>, <<"M","N","T">>, <<"M","O","P">>, <<"M","R","O">>, <<"M","U","R">>, <<"M","V","R">>,
    <<"M","W","K">>, <<"M","X","N">>, <<"M","Y","R">>, <<"M","Z","N">>, <<"N","A","D">>, <<"N","G","N">>,
    <<"N","I","O">>, <<"N","O","K">>, <<"N","P","R">>, <<"N","Z","D">>, <<"O","M","R">>, <<"O","P">>,
    <<"P","A","B">>, <<"P","E","N">>, <<"P","G","K">>, <<"P","H","P">>, <<"P","K","R">>, <<"P","L","N">>,
    <<"P","Y","G">>, <<"Q","A","R">>, <<"R","O","N">>, <<"R","S","D">>, <<"R","U","B">>, <<"R","W","F">>,
    <<"S","A","R">>, <<"S","B","D">>, <<"S","C","R">>, <<"S","D","G">>, <<"S","E","K">>, <<"S","G","D">>,
    <<"S","H","P">>, <<"S","L","L">>, <<"S","O","L">>, <<"S","O","S">>, <<"S","R","D">>, <<"S","T","D">>,
    <<"S","V","C">>, <<"S","Y","P">>, <<"S","Z","L">>, <<"T","H","B">>, <<"T","J","S">>, <<"T","M","T">>,
    <<"T","N","D">>, <<"T","O","P">>, <<"T","R","Y">>, <<"T","T","D">>, <<"T","W","D">>, <<"T","Z","S">>,
    <<"U","A","H">>, <<"U","G","X">>, <<"U","S","D">>, <<"U","Y","U">>, <<"U","Z","S">>, <<"V","E","F">>,
    <<"V","N","D">>, <<"V","U","V">>, <<"W","S","T">>, <<"X","A","F">>, <<"X","A","G">>, <<"X","A","U">>,
    <<"X","C","D">>, <<"X","D","R">>, <<"X","O","F">>, <<"X","P","D">>, <<"X","P","F">>, <<"X","P","T">>,
    <<"X","R","P">>, <<"Y","E","R">>, <<"Z","A","R">>, <<"Z","M","K">>, <<"Z","M","W">>, <<"Z","W","L">>
}

validate_currency(currency) == upper(currency) \in SUPPORTED_EXCHANGES

-----------------------------------------------------------------------------
(* Numbers.  A float is [kind, n, d]: the rational n/d in lowest terms with *)
(* d > 0 when kind = "fin", n = 1 or -1 for the two infinities, and nan.   *)

RECURSIVE GCD(_, _)
GCD(a, b) == IF b = 0 THEN a ELSE GCD(b, a % b)

Abs(x) == IF x < 0 THEN -x ELSE x

Fin(n, d) ==
    LET g == GCD(Abs(n), Abs(d))
        s == IF d < 0 THEN -1 ELSE 1
    IN  [kind |-> "fin", n |-> (s * n) \div g, d |-> (s * d) \div g]

Inf(sign) == [kind |-> "inf", n |-> sign, d |-> 0]

NaN == [kind |-> "nan", n |-> 0, d |-> 0]

Sign(v) == IF v.n < 0 THEN -1 ELSE IF v.n > 0 THEN 1 ELSE 0

\* x == 0
IsZero(v) == v.kind = "fin" /\ v.n = 0

\* a / b for floats, b nonzero (a zero b raises ZeroDivisionError instead)
FloatDiv(a, b) ==
    IF a.kind = "nan" \/ b.kind = "nan" THEN NaN
    ELSE IF a.kind = "inf" THEN (IF b.kind = "inf" THEN NaN ELSE Inf(Sign(a) * Sign(b)))
    ELSE IF b.kind = "inf" THEN Fin(0, 1)
    ELSE Fin(a.n * b.d, a.d * b.n)

\* a * b for floats
FloatMul(a, b) ==
    IF a.kind = "nan" \/ b.kind = "nan" THEN NaN
    ELSE IF a.kind = "inf" \/ b.kind = "inf"
         THEN (IF Sign(a) * Sign(b) = 0 THEN NaN ELSE Inf(Sign(a) * Sign(b)))
    ELSE Fin(a.n * b.n, a.d * b.d)

IsDigit(c) == IsIn(c, DigitChars)

DigitVal(c) == IndexOf(c, DigitChars) - 1

RECURSIVE NatOf(_)
NatOf(digits) ==
    IF digits = <<>> THEN 0
    ELSE NatOf(SubSeq(digits, 1, Len(digits) - 1)) * 10 + DigitVal(digits[Len(digits)])

RECURSIVE Pow10(_)
Pow10(k) == IF k = 0 THEN 1 ELSE 10 * Pow10(k - 1)

\* A run of digits in which single underscores may separate digits.
DigitPartOk(s) ==
    /\ s # <<>>
    /\ IsDigit(s[1])
    /\ IsDigit(s[Len(s)])
    /\ \A i \in 1..Len(s) : IsDigit(s[i]) \/ s[i] = "_"
    /\ \A i \in 1..(Len(s) - 1) : ~(s[i] = "_" /\ s[i + 1] = "_")

FirstIndex(s, chars) ==
    IF \E i \in 1..Len(s) : s[i] \in chars
    THEN CHOOSE i \in 1..Len(s) : s[i] \in chars /\ \A j \in 1..(i - 1) : s[j] \notin chars
    ELSE 0

\* float(text): [ok |-> TRUE, value |-> v], or ok = FALSE where float raises
\* ValueError.
ParseFloat(text) ==
    LET s        == strip(text)
        signed   == s # <<>> /\ s[1] \in {"+", "-"}
        sign     == IF signed /\ s[1] = "-" THEN -1 ELSE 1
        body     == IF signed THEN Tail(s) ELSE s
        e        == FirstIndex(body, {"e", "E"})
        mant     == IF e = 0 THEN body ELSE SubSeq(body, 1, e - 1)
        expo     == IF e = 0 THEN <<>> ELSE SubSeq(body, e + 1, Len(body))
        expNeg   == expo # <<>> /\ expo[1] = "-"
        expPart  == IF expo # <<>> /\ expo[1] \in {"+", "-"} THEN Tail(expo) ELSE expo
        dot      == FirstIndex(mant, {"."})
        intPart  == IF dot = 0 THEN mant ELSE SubSeq(mant, 1, dot - 1)
        fracPart == IF dot = 0 THEN <<>> ELSE SubSeq(mant, dot + 1, Len(mant))
        fracDigs == SelectSeq(fracPart, IsDigit)
        digits   == SelectSeq(intPart, IsDigit) \o fracDigs
        expVal   == NatOf(SelectSeq(expPart, IsDigit))
        wellFormed ==
            /\ intPart # <<>> \/ fracPart # <<>>
            /\ intPart = <<>> \/ DigitPartOk(intPart)
            /\ fracPart = <<>> \/ DigitPartOk(fracPart)
            /\ e = 0 \/ DigitPartOk(expPart)
        scaled   == IF expNeg
                    THEN Fin(sign * NatOf(digits), Pow10(Len(fracDigs)) * Pow10(expVal))
                    ELSE Fin(sign * NatOf(digits) * Pow10(expVal), Pow10(Len(fracDigs)))
    IN  IF lower(body) \in {<<"i","n","f">>, <<"i","n","f","i","n","i","t","y">>}
        THEN [ok |-> TRUE, value |-> Inf(sign)]
        ELSE IF lower(body) = <<"n","a","n">> THEN [ok |-> TRUE, value |-> NaN]
        ELSE IF wellFormed THEN [ok |-> TRUE, value |-> scaled]
        ELSE [ok |-> FALSE, value |-> NaN]

RECURSIVE DigitsOf(_)
DigitsOf(n) ==
    IF n < 10 THEN <<DigitChars[n + 1]>>
    ELSE DigitsOf(n \div 10) \o <<DigitChars[(n % 10) + 1]>>

\* f"{v:.2f}": two decimals, ties to even.
Format2f(v) ==
    IF v.kind = "nan" THEN <<"n","a","n">>
    ELSE IF v.kind = "inf"
         THEN (IF v.n < 0 THEN <<"-">> ELSE <<>>) \o <<"i","n","f">>
    ELSE LET a == Abs(v.n) * 100
             q == a \div v.d
             r == a % v.d
             h == IF 2 * r > v.d \/ (2 * r = v.d /\ q % 2 = 1) THEN q + 1 ELSE q
         IN  (IF v.n < 0 THEN <<"-">> ELSE <<>>)
             \o DigitsOf(h \div 100) \o <<".">>
             \o <<DigitChars[((h % 100) \div 10) + 1], DigitChars[(h % 10) + 1]>>

-----------------------------------------------------------------------------
(* The environment: what the API answers and what the user types.          *)

USD == <<"U","S","D">>
EUR == <<"E","U","R">>
JPY == <<"J","P","Y">>
XYZ == <<"X","Y","Z">>

\* API answers in which the fetch succeeds.  In the first, JPY is a registered
\* code without a rate; the last has a zero rate and a rate for the
\* unregistered code XYZ.
RateTables == {
    (USD :> Fin(1, 1)) @@ (EUR :> Fin(85, 100)),
    (USD :> Fin(1, 1)) @@ (JPY :> Fin(110, 1)),
    (USD :> Fin(0, 1)) @@ (EUR :> Fin(1, 2)) @@ (XYZ :> Fin(2, 1))
}

EmptyTable == [code \in {} |-> NaN]

\* What requests.get(API_URL, timeout=10) does: raises, or returns a response
\* with an HTTP status and a body that is not JSON ("invalid": response.json()
\* raises requests' JSONDecodeError, a RequestException and a ValueError;
\* "invalid_plain": it raises a plain ValueError, as older releases of requests
\* do), is a JSON array, or is a JSON object with the given fields.
Responses ==
    {[raises |-> e, status |-> 200, body |-> "object", fields |-> <<>>] :
        e \in {"ConnectionError", "Timeout", "KeyboardInterrupt"}}
    \cup {[raises |-> "none", status |-> s, body |-> "object", fields |-> <<>>] :
        s \in {404, 500}}
    \cup {[raises |-> "none", status |-> 200, body |-> b, fields |-> <<>>] :
        b \in {"invalid", "invalid_plain", "array"}}
    \cup {[raises |-> "none", status |-> 200, body |-> "object",
           fields |-> [name \in {"success"} |-> EmptyTable]]}
    \cup {[raises |-> "none", status |-> 200, body |-> "object",
           fields |-> [name \in {"rates"} |-> t]] : t \in RateTables \cup {EmptyTable}}

\* Before the request is made.
NoResponse == [raises |-> "none", status |-> 0, body |-> "unsent", fields |-> <<>>]

Line(text) == [ev |-> "line", text |-> text]

\* input() returns a line, or raises EOFError or KeyboardInterrupt.
Raising == {[ev |-> e, text |-> <<>>] : e \in {"EOFError", "KeyboardInterrupt"}}

CurrencyInputs ==
    {Line(t) : t \in {<<"u","s","d">>, USD, <<"U","s","d">>, <<" ","e","u","r"," ">>,
                      JPY, XYZ,
                      <<"e","x","i","t">>, <<"E","X","I","T">>,
                      <<" ","E","x","i","t","\t">>}}
    \cup Raising

AmountInputs ==
    {Line(t) : t \in {<<"1","0","0">>, <<" ","1","0">>, <<"-","2",".","5">>,
                      <<"i","n","f">>, <<"a","b","c">>, <<"e","x","i","t">>, <<>>}}
    \cup Raising

AckInputs == {Line(<<>>)} \cup Raising

-----------------------------------------------------------------------------
(* The program.  A call's outcome is what it raised (if anything), the     *)
(* sys.exit code, what it printed, the value it returned, and for          *)
(* convert_currency the keys it indexed `rates` with and the divisors of   *)
(* the divisions it evaluated.                                             *)

Box(kind, text, arg) == [box |-> kind, text |-> text, arg |-> arg]

create_error_box(text, arg) == Box("error", text, arg)

create_info_box(text) == Box("info", text, <<>>)

create_success_box(arg) == Box("success", "is equal to", arg)

create_header(title) == Box("header", title, <<>>)

Returned(value, printed) ==
    [raised |-> "none", code |-> 0, printed |-> printed, value |-> value,
     lookups |-> <<>>, divisors |-> <<>>]

Raised(exc, code, printed) ==
    [raised |-> exc, code |-> code, printed |-> printed, value |-> NaN,
     lookups |-> <<>>, divisors |-> <<>>]

\* sys.exit(code) after printing
SysExit(code, printed) == Raised("SystemExit", code, printed)

\* Mutant: the `if not rates` test of lines 141-143 is left out.
fetch_exchange_rates_NoEmptyCheck(response) ==
    IF response.raises = "KeyboardInterrupt" THEN Raised("KeyboardInterrupt", 0, <<>>)
    ELSE IF response.raises # "none" \/ response.status >= 400 \/ response.body = "invalid"
         THEN SysExit(1, <<create_error_box("Error fetching data from API: ", <<>>)>>)
    ELSE IF response.body = "invalid_plain"
         THEN SysExit(1, <<create_error_box("Error parsing API response: ", <<>>)>>)
    ELSE IF response.body = "array" THEN Raised("AttributeError", 0, <<>>)
    ELSE Returned(IF "rates" \in DOMAIN response.fields
                  THEN response.fields["rates"] ELSE EmptyTable, <<>>)

fetch_exchange_rates(response) ==
    IF response.raises = "KeyboardInterrupt" THEN Raised("KeyboardInterrupt", 0, <<>>)
    ELSE IF response.raises # "none" \/ response.status >= 400 \/ response.body = "invalid"
         THEN SysExit(1, <<create_error_box("Error fetching data from API: ", <<>>)>>)
    ELSE IF response.body = "invalid_plain"
         THEN SysExit(1, <<create_error_box("Error parsing API response: ", <<>>)>>)
    ELSE IF response.body = "array" THEN Raised("AttributeError", 0, <<>>)
    ELSE LET fetched == IF "rates" \in DOMAIN response.fields
                        THEN response.fields["rates"] ELSE EmptyTable
         IN  IF DOMAIN fetched = {}
             THEN SysExit(1, <<create_error_box("No exchange rates data received from API", <<>>)>>)
             ELSE Returned(fetched, <<>>)

\* Mutant: the division by the source rate is left out.
conversion_formula_NoDivision(amt, from_rate, to_rate) ==
    Returned(FloatMul(amt, to_rate), <<>>)

\* Line 199, `(amount / from_rate) * to_rate`: the division raises
\* ZeroDivisionError on a zero from_rate.
conversion_formula(amt, from_rate, to_rate) ==
    IF IsZero(from_rate)
    THEN [Raised("ZeroDivisionError", 0, <<>>) EXCEPT !.divisors = <<from_rate>>]
    ELSE [Returned(FloatMul(FloatDiv(amt, from_rate), to_rate), <<>>)
            EXCEPT !.divisors = <<from_rate>>]

\* Mutant: the codes are not uppercased (lines 184-185 left out).
convert_currency_NoUpper(amt, from_currency, to_currency, table) ==
    LET from == from_currency
        to   == to_currency
    IN  IF ~validate_currency(from) \/ ~validate_currency(to)
        THEN SysExit(1, <<create_error_box("Unsupported currency", <<>>)>>)
        ELSE IF from \notin DOMAIN table
        THEN [SysExit(1, <<create_error_box("Exchange rate not available for currency: {}", from)>>)
                EXCEPT !.lookups = <<from>>]
        ELSE IF to \notin DOMAIN table
        THEN [SysExit(1, <<create_error_box("Exchange rate not available for currency: {}", to)>>)
                EXCEPT !.lookups = <<from, to>>]
        ELSE IF IsZero(table[from])
        THEN [SysExit(1, <<create_error_box("Exchange rate for {} is not available", from)>>)
                EXCEPT !.lookups = <<from, to>>]
        ELSE [conversion_formula(amt, table[from], table[to]) EXCEPT !.lookups = <<from, to>>]

\* Mutant: a code without a rate is reported as unsupported (the KeyError
\* handler of lines 202-204 prints the message of line 188).
convert_currency_MissingIsUnsupported(amt, from_currency, to_currency, table) ==
    LET from == upper(from_currency)
        to   == upper(to_currency)
    IN  IF ~validate_currency(from) \/ ~validate_currency(to)
        THEN SysExit(1, <<create_error_box("Unsupported currency", <<>>)>>)
        ELSE IF from \notin DOMAIN table
        THEN [SysExit(1, <<create_error_box("Unsupported currency", <<>>)>>)
                EXCEPT !.lookups = <<from>>]
        ELSE IF to \notin DOMAIN table
        THEN [SysExit(1, <<create_error_box("Unsupported currency", <<>>)>>)
                EXCEPT !.lookups = <<from, to>>]
        ELSE IF IsZero(table[from])
        THEN [SysExit(1, <<create_error_box("Exchange rate for {} is not available", from)>>)
                EXCEPT !.lookups = <<from, to>>]
        ELSE [conversion_formula(amt, table[from], table[to]) EXCEPT !.lookups = <<from, to>>]

\* Mutant: the zero test of lines 195-197 is left out, so that the division
\* raises and the handler of lines 205-207 reports it.
convert_currency_NoZeroGuard(amt, from_currency, to_currency, table) ==
    LET from == upper(from_currency)
        to   == upper(to_currency)
        computed == conversion_formula(amt, table[from], table[to])
    IN  IF ~validate_currency(from) \/ ~validate_currency(to)
        THEN SysExit(1, <<create_error_box("Unsupported currency", <<>>)>>)
        ELSE IF from \notin DOMAIN table
        THEN [SysExit(1, <<create_error_box("Exchange rate not available for currency: {}", from)>>)
                EXCEPT !.lookups = <<from>>]
        ELSE IF to \notin DOMAIN table
        THEN [SysExit(1, <<create_error_box("Exchange rate not available for currency: {}", to)>>)
                EXCEPT !.lookups = <<from, to>>]
        ELSE IF computed.raised = "ZeroDivisionError"
        THEN [SysExit(1, <<create_error_box("Invalid exchange rate (division by zero)", <<>>)>>)
                EXCEPT !.lookups = <<from, to>>, !.divisors = computed.divisors]
        ELSE [computed EXCEPT !.lookups = <<from, to>>]

convert_currency(amt, from_currency, to_currency, table) ==
    LET from == upper(from_currency)
        to   == upper(to_currency)
        computed == conversion_formula(amt, table[from], table[to])
    IN  IF ~validate_currency(from) \/ ~validate_currency(to)
        THEN SysExit(1, <<create_error_box("Unsupported currency", <<>>)>>)
        ELSE IF from \notin DOMAIN table
        THEN [SysExit(1, <<create_error_box("Exchange rate not available for currency: {}", from)>>)
                EXCEPT !.lookups = <<from>>]
        ELSE IF to \notin DOMAIN table
        THEN [SysExit(1, <<create_error_box("Exchange rate not available for currency: {}", to)>>)
                EXCEPT !.lookups = <<from, to>>]
        ELSE IF IsZero(table[from])
        THEN [SysExit(1, <<create_error_box("Exchange rate for {} is not available", from)>>)
                EXCEPT !.lookups = <<from, to>>]
        ELSE IF computed.raised = "ZeroDivisionError"
        THEN [SysExit(1, <<create_error_box("Invalid exchange rate (division by zero)", <<>>)>>)
                EXCEPT !.lookups = <<from, to>>, !.divisors = computed.divisors]
        ELSE [computed EXCEPT !.lookups = <<from, to>>]

format_conversion_result(amt, from_currency, to_currency, converted) ==
    [amount |-> amt, from |-> from_currency, to |-> to_currency,
     converted |-> Format2f(converted)]

display_conversion_result(amt, from_currency, to_currency, converted) ==
    <<create_success_box(format_conversion_result(amt, from_currency, to_currency, converted))>>

handle_user_exit == SysExit(0, <<create_header(" GOODBYE! ")>>)

\* get_colored_input: the line read, stripped
get_colored_input(inp) == strip(inp.text)

\* Mutant: the comparison is case-sensitive (.lower() left out).
IsExit_CaseSensitive(text) == text = <<"e","x","i","t">>

\* the test `<input>.lower() == "exit"` of run_conversion_loop
IsExit(text) == lower(text) = <<"e","x","i","t">>

\* Mutant: no `except KeyboardInterrupt` clause (lines 314-316 left out), so
\* that the interrupt is uncaught and the interpreter ends with a failure.
main_except_NoInterruptClause(out) ==
    IF out.raised = "KeyboardInterrupt" THEN Raised("KeyboardInterrupt", 130, out.printed)
    ELSE IF out.raised = "SystemExit" THEN out
    ELSE SysExit(1, out.printed \o <<create_error_box("Unexpected error: ", <<>>)>>)

\* main's except clauses, applied to an outcome that raised
main_except(out) ==
    IF out.raised = "KeyboardInterrupt"
    THEN [handle_user_exit EXCEPT
            !.printed = out.printed \o <<create_info_box("Operation cancelled by user")>> \o @]
    ELSE IF out.raised = "SystemExit" THEN out
    ELSE SysExit(1, out.printed \o <<create_error_box("Unexpected error: ", <<>>)>>)

-----------------------------------------------------------------------------
(* The process, one action per blocking call.                              *)

Step(out, called) ==
    [at |-> pc, raised |-> out.raised, printed |-> out.printed, lookups |-> out.lookups,
     divisors |-> out.divisors, convert_called |-> called]

Quiet == Returned(NaN, <<>>)

\* Lines 272-274: the screen is cleared and the header printed.
LoopTop == <<create_header("CURRENCY CONVERTER")>>

Init ==
    /\ pc = "Startup"
    /\ exit_status = <<>>
    /\ rates = EmptyTable
    /\ fetches = 0
    /\ iteration = 0
    /\ from_currency_input = <<>>
    /\ to_currency_input = <<>>
    /\ amount = NaN
    /\ converted_amount = NaN
    /\ from_iteration = 0
    /\ to_iteration = 0
    /\ api_response = NoResponse
    /\ last_input = Line(<<>>)
    /\ step = Step(Quiet, FALSE)

\* The process ends with what main's except clauses make of `out`.
Terminate(out, called) ==
    LET final == main_except(out)
    IN  /\ pc' = "Exited"
        /\ exit_status' = <<final.code>>
        /\ step' = Step(final, called)

\* A new pass through the loop body starts.
NextIteration(printed) ==
    /\ iteration < MaxIterations
    /\ iteration' = iteration + 1
    /\ pc' = "AwaitingFromCurrency"
    /\ step' = Step(Returned(NaN, printed \o LoopTop), FALSE)
    /\ UNCHANGED exit_status

\* main, lines 306-312, up to the first prompt
Startup(response) ==
    LET info == <<create_info_box("Fetching latest exchange rates...")>>
        out  == fetch_exchange_rates(response)
    IN  /\ pc = "Startup"
        /\ fetches' = fetches + 1
        /\ api_response' = response
        /\ IF out.raised = "none"
           THEN /\ rates' = out.value
                /\ NextIteration(info)
           ELSE /\ Terminate([out EXCEPT !.printed = info \o @], FALSE)
                /\ UNCHANGED <<rates, iteration>>
        /\ UNCHANGED <<from_currency_input, to_currency_input, amount,
                       converted_amount, from_iteration, to_iteration, last_input>>

\* Mutant: the source code is checked against the registry as soon as it is
\* read.
ReadFromCurrency_ValidatesEarly(inp) ==
    /\ pc = "AwaitingFromCurrency"
    /\ last_input' = inp
    /\ IF inp.ev # "line"
       THEN /\ Terminate(Raised(inp.ev, 0, <<>>), FALSE)
            /\ UNCHANGED <<from_currency_input, from_iteration>>
       ELSE /\ from_currency_input' = get_colored_input(inp)
            /\ from_iteration' = iteration
            /\ IF IsExit(from_currency_input')
               THEN Terminate(handle_user_exit, FALSE)
               ELSE IF ~validate_currency(from_currency_input')
               THEN Terminate(SysExit(1, <<create_error_box("Unsupported currency", <<>>)>>), FALSE)
               ELSE /\ pc' = "AwaitingToCurrency"
                    /\ step' = Step(Quiet, FALSE)
                    /\ UNCHANGED exit_status
    /\ UNCHANGED <<rates, fetches, api_response, iteration, to_currency_input, amount,
                   converted_amount, to_iteration>>

\* run_conversion_loop, lines 277-279
ReadFromCurrency(inp) ==
    /\ pc = "AwaitingFromCurrency"
    /\ last_input' = inp
    /\ IF inp.ev # "line"
       THEN /\ Terminate(Raised(inp.ev, 0, <<>>), FALSE)
            /\ UNCHANGED <<from_currency_input, from_iteration>>
       ELSE /\ from_currency_input' = get_colored_input(inp)
            /\ from_iteration' = iteration
            /\ IF IsExit(from_currency_input')
               THEN Terminate(handle_user_exit, FALSE)
               ELSE /\ pc' = "AwaitingToCurrency"
                    /\ step' = Step(Quiet, FALSE)
                    /\ UNCHANGED exit_status
    /\ UNCHANGED <<rates, fetches, api_response, iteration, to_currency_input, amount,
                   converted_amount, to_iteration>>

\* run_conversion_loop, lines 282-284
ReadToCurrency(inp) ==
    /\ pc = "AwaitingToCurrency"
    /\ last_input' = inp
    /\ IF inp.ev # "line"
       THEN /\ Terminate(Raised(inp.ev, 0, <<>>), FALSE)
            /\ UNCHANGED <<to_currency_input, to_iteration>>
       ELSE /\ to_currency_input' = get_colored_input(inp)
            /\ to_iteration' = iteration
            /\ IF IsExit(to_currency_input')
               THEN Terminate(handle_user_exit, FALSE)
               ELSE /\ pc' = "AwaitingAmount"
                    /\ step' = Step(Quiet, FALSE)
                    /\ UNCHANGED exit_status
    /\ UNCHANGED <<rates, fetches, api_response, iteration, from_currency_input, amount,
                   converted_amount, from_iteration>>

\* get_user_amount, lines 260-261
get_user_amount(inp) == ParseFloat(get_colored_input(inp))

\* Mutant: after the error only the amount is asked for again.
InvalidAmount_RetryAmount ==
    /\ pc' = "AwaitingAmount"
    /\ step' = Step(Returned(NaN, <<create_error_box("Invalid amount. Please enter a number.", <<>>)>>), FALSE)
    /\ UNCHANGED <<exit_status, amount, converted_amount>>

\* Lines 289-291: the ValueError is caught and reported.
InvalidAmount ==
    /\ pc' = "AckInvalidAmount"
    /\ step' = Step(Returned(NaN, <<create_error_box("Invalid amount. Please enter a number.", <<>>)>>), FALSE)
    /\ UNCHANGED <<exit_status, amount, converted_amount>>

\* Mutant: a failed conversion is reported and the loop goes on, as it does
\* after an invalid amount.
Convert_Recoverable(amt) ==
    LET out == convert_currency(amt, from_currency_input, to_currency_input, rates)
    IN  /\ amount' = amt
        /\ IF out.raised = "none"
           THEN /\ converted_amount' = out.value
                /\ pc' = "AckResult"
                /\ step' = Step([out EXCEPT !.printed =
                                    display_conversion_result(amt, upper(from_currency_input),
                                        upper(to_currency_input), out.value)], TRUE)
                /\ UNCHANGED exit_status
           ELSE /\ pc' = "AckInvalidAmount"
                /\ step' = Step(out, TRUE)
                /\ UNCHANGED <<exit_status, converted_amount>>

\* Lines 295-296: the conversion and the display of its result.
Convert(amt) ==
    LET out == convert_currency(amt, from_currency_input, to_currency_input, rates)
    IN  /\ amount' = amt
        /\ IF out.raised = "none"
           THEN /\ converted_amount' = out.value
                /\ pc' = "AckResult"
                /\ step' = Step([out EXCEPT !.printed =
                                    display_conversion_result(amt, upper(from_currency_input),
                                        upper(to_currency_input), out.value)], TRUE)
                /\ UNCHANGED exit_status
           ELSE /\ Terminate(out, TRUE)
                /\ UNCHANGED converted_amount

\* run_conversion_loop, lines 287-296
ReadAmount(inp) ==
    /\ pc = "AwaitingAmount"
    /\ last_input' = inp
    /\ IF inp.ev # "line"
       THEN /\ Terminate(Raised(inp.ev, 0, <<>>), FALSE)
            /\ UNCHANGED <<amount, converted_amount>>
       ELSE IF get_user_amount(inp).ok
            THEN Convert(get_user_amount(inp).value)
            ELSE InvalidAmount
    /\ UNCHANGED <<rates, fetches, api_response, iteration, from_currency_input, to_currency_input,
                   from_iteration, to_iteration>>

\* run_conversion_loop, lines 291-292: "Press Enter to continue", then `continue`
AcknowledgeInvalidAmount(inp) ==
    /\ pc = "AckInvalidAmount"
    /\ last_input' = inp
    /\ IF inp.ev # "line"
       THEN Terminate(Raised(inp.ev, 0, <<>>), FALSE) /\ UNCHANGED iteration
       ELSE NextIteration(<<>>)
    /\ UNCHANGED <<rates, fetches, api_response, from_currency_input, to_currency_input, amount,
                   converted_amount, from_iteration, to_iteration>>

\* run_conversion_loop, line 299: "Press Enter to continue", then the next pass
AcknowledgeResult(inp) ==
    /\ pc = "AckResult"
    /\ last_input' = inp
    /\ IF inp.ev # "line"
       THEN Terminate(Raised(inp.ev, 0, <<>>), FALSE) /\ UNCHANGED iteration
       ELSE NextIteration(<<>>)
    /\ UNCHANGED <<rates, fetches, api_response, from_currency_input, to_currency_input, amount,
                   converted_amount, from_iteration, to_iteration>>

Next ==
    \/ \E response \in Responses : Startup(response)
    \/ \E inp \in CurrencyInputs : ReadFromCurrency(inp)
    \/ \E inp \in CurrencyInputs : ReadToCurrency(inp)
    \/ \E inp \in AmountInputs : ReadAmount(inp)
    \/ \E inp \in AckInputs : AcknowledgeInvalidAmount(inp)
    \/ \E inp \in AckInputs : AcknowledgeResult(inp)

Spec == Init /\ [][Next]_vars

-----------------------------------------------------------------------------
(* Vocabulary of the properties: the specification's error kinds are the   *)
(* error boxes the code prints.                                            *)

PrintedBoxes(kind) ==
    {step.printed[i] : i \in {j \in DOMAIN step.printed : step.printed[j].box = kind}}

ErrorTexts == {b.text : b \in PrintedBoxes("error")}

UnsupportedCurrency == "Unsupported currency" \in ErrorTexts

RateUnavailable == "Exchange rate not available for currency: {}" \in ErrorTexts

ZeroRate == "Exchange rate for {} is not available" \in ErrorTexts

InvalidAmountReported == "Invalid amount. Please enter a number." \in ErrorTexts

ResultDisplayed == PrintedBoxes("success") # {}

Farewell == create_header(" GOODBYE! ") \in PrintedBoxes("header")

Running == exit_status = <<>> /\ pc # "Exited"

\* "exit" in any letter case, spelled out letter by letter
ExitSpellings ==
    {<<a, b, c, d>> : a \in {"e", "E"}, b \in {"x", "X"}, c \in {"i", "I"}, d \in {"t", "T"}}

\* the text without the blanks and tabs around it
RECURSIVE Trimmed(_)
Trimmed(s) ==
    IF s = <<>> THEN s
    ELSE IF s[1] \in {" ", "\t"} THEN Trimmed(Tail(s))
    ELSE IF s[Len(s)] \in {" ", "\t"} THEN Trimmed(SubSeq(s, 1, Len(s) - 1))
    ELSE s

TypedExit == last_input.ev = "line" /\ Trimmed(last_input.text) \in ExitSpellings

\* two characters that are the same letter, whatever the case
SameLetter(a, b) ==
    \/ a = b
    \/ \E i \in 1..Len(LowerLetters) :
          {a, b} = {LowerLetters[i], UpperLetters[i]}

\* the code's uppercase form is in the registry
Registered(code) ==
    \E r \in SUPPORTED_EXCHANGES :
        Len(r) = Len(code) /\ \A i \in 1..Len(r) : SameLetter(code[i], r[i])

\* the registry code a registered code stands for
RegistryCode(code) ==
    CHOOSE r \in SUPPORTED_EXCHANGES :
        Len(r) = Len(code) /\ \A i \in 1..Len(r) : SameLetter(code[i], r[i])

HasRate(code) == Registered(code) /\ RegistryCode(code) \in DOMAIN rates

RateOf(code) == rates[RegistryCode(code)]

-----------------------------------------------------------------------------
(* C1.  Typing "exit", in any letter case and with blanks around it, at    *)
(* the source-currency or the target-currency prompt ends the process with *)
(* exit status 0 and the farewell; that step neither calls                 *)
(* convert_currency nor displays a result, and nothing follows it.         *)

C1_ExitAtCurrencyPrompt ==
    /\ [][(/\ pc \in {"AwaitingFromCurrency", "AwaitingToCurrency"}
           /\ TypedExit')
          => (/\ pc' = "Exited"
              /\ exit_status' = <<0>>
              /\ Farewell'
              /\ ~step'.convert_called
              /\ ~ResultDisplayed')]_vars
    /\ [][pc = "Exited" => UNCHANGED vars]_vars

\* "Exit" with blanks around it was typed at the target-currency prompt.
C1_Witness ==
    /\ pc = "Exited"
    /\ step.at = "AwaitingToCurrency"
    /\ last_input = Line(<<" ","E","x","i","t","\t">>)
    /\ exit_status = <<0>>

-----------------------------------------------------------------------------
(* C2.  An amount that float() rejects does not end the process: the       *)
(* invalid-amount error is printed, convert_currency is not called, the    *)
(* Rate Table is unchanged, and after the acknowledgment the next prompt   *)
(* is the source-currency prompt; a conversion only ever uses codes read   *)
(* in its own pass through the loop.                                       *)

C2_InvalidAmountRestarts ==
    /\ [][(/\ pc = "AwaitingAmount"
           /\ last_input'.ev = "line"
           /\ ~ParseFloat(last_input'.text).ok)
          => (/\ pc' = "AckInvalidAmount"
              /\ exit_status' = <<>>
              /\ InvalidAmountReported'
              /\ ~step'.convert_called
              /\ ~ResultDisplayed'
              /\ rates' = rates)]_vars
    /\ [][(pc = "AckInvalidAmount" /\ last_input'.ev = "line")
          => (pc' = "AwaitingFromCurrency" /\ exit_status' = <<>> /\ rates' = rates)]_vars
    /\ [](step.convert_called => from_iteration = iteration /\ to_iteration = iteration)

\* The first pass ended in an invalid amount; in the second the source code
\* has been typed again and the target code is still the one of the first.
C2_Witness ==
    /\ pc = "AwaitingToCurrency"
    /\ iteration = 2
    /\ amount = NaN
    /\ from_iteration = 2
    /\ to_iteration = 1

-----------------------------------------------------------------------------
(* C3.  A call of convert_currency that fails prints one of the three      *)
(* conversion errors and ends the process with exit status 1, displaying   *)
(* no result; the only error box after which the process is still running  *)
(* is the invalid-amount one; and exit status 0 only follows the exit      *)
(* token at a currency prompt or a user interrupt.                         *)

ConvertFailed == step.convert_called /\ ~ResultDisplayed

C3_ConversionErrorsAreFatal ==
    /\ ConvertFailed =>
          /\ UnsupportedCurrency \/ RateUnavailable \/ ZeroRate
          /\ pc = "Exited"
          /\ exit_status = <<1>>
    /\ (UnsupportedCurrency \/ RateUnavailable \/ ZeroRate) =>
          /\ pc = "Exited"
          /\ exit_status = <<1>>
          /\ ~ResultDisplayed
    /\ (Running /\ ErrorTexts # {}) =>
          ErrorTexts = {"Invalid amount. Please enter a number."}
    /\ exit_status = <<0>> =>
          \/ TypedExit /\ step.at \in {"AwaitingFromCurrency", "AwaitingToCurrency"}
          \/ last_input.ev = "KeyboardInterrupt"
          \/ api_response.raises = "KeyboardInterrupt"

\* A registered code without a rate ended the process with status 1.
C3_Witness ==
    /\ step.convert_called
    /\ RateUnavailable
    /\ exit_status = <<1>>

-----------------------------------------------------------------------------
(* C4.  convert_currency prints "Unsupported currency" and exits with      *)
(* status 1, without indexing the Rate Table, whenever the source or the   *)
(* target code is not a registry code in some letter case, even if the     *)
(* table has a rate for it; it never does so when both are; and every key  *)
(* it indexes the Rate Table with is a registry code.                      *)

C4_RegistryBeforeRates ==
    step.convert_called =>
        /\ (~Registered(from_currency_input) \/ ~Registered(to_currency_input)) =>
              /\ UnsupportedCurrency
              /\ exit_status = <<1>>
              /\ step.lookups = <<>>
        /\ (Registered(from_currency_input) /\ Registered(to_currency_input)) =>
              ~UnsupportedCurrency
        /\ \A i \in DOMAIN step.lookups : step.lookups[i] \in SUPPORTED_EXCHANGES

\* The unregistered XYZ has a rate in the table and is still refused.
C4_Witness ==
    /\ step.convert_called
    /\ from_currency_input = <<"U","s","d">>
    /\ to_currency_input = XYZ
    /\ XYZ \in DOMAIN rates
    /\ UnsupportedCurrency

-----------------------------------------------------------------------------
(* C5.  When both codes are registered and one has no rate in the table,   *)
(* convert_currency prints the rate-unavailable error naming a code that   *)
(* has no rate, not "Unsupported currency", and returns no amount.         *)

C5_MissingRateIsRateUnavailable ==
    (/\ step.convert_called
     /\ Registered(from_currency_input) /\ Registered(to_currency_input)
     /\ ~HasRate(from_currency_input) \/ ~HasRate(to_currency_input))
    => /\ RateUnavailable
       /\ \A b \in PrintedBoxes("error") :
             /\ b.text = "Exchange rate not available for currency: {}"
             /\ b.arg \in SUPPORTED_EXCHANGES \ DOMAIN rates
             /\ b.arg \in {RegistryCode(from_currency_input), RegistryCode(to_currency_input)}
       /\ ~ResultDisplayed
       /\ pc = "Exited"
       /\ exit_status = <<1>>

\* USD has a rate and JPY, a registered code, has none.
C5_Witness ==
    /\ step.convert_called
    /\ from_currency_input = <<"u","s","d">>
    /\ to_currency_input = JPY
    /\ JPY \notin DOMAIN rates
    /\ RateUnavailable

-----------------------------------------------------------------------------
(* C6.  As claimed: for registered codes, a zero rate of the source code   *)
(* always gives the zero-rate error.                                       *)

C6_ZeroRateAlways ==
    (/\ step.convert_called
     /\ Registered(from_currency_input) /\ Registered(to_currency_input)
     /\ HasRate(from_currency_input)
     /\ RateOf(from_currency_input).n = 0)
    => ZeroRate

(* C6, amended.  For registered codes that both have a rate, a zero rate   *)
(* of the source code gives the zero-rate error naming it, with exit       *)
(* status 1 and no result; no division by zero is ever evaluated; and a    *)
(* zero rate of the target code, the source rate not being zero, is no     *)
(* error: the result is displayed.                                         *)

C6_ZeroRateWhenBothPresent ==
    /\ (/\ step.convert_called
        /\ HasRate(from_currency_input) /\ HasRate(to_currency_input)
        /\ RateOf(from_currency_input).n = 0)
       => /\ ZeroRate
          /\ \A b \in PrintedBoxes("error") : b.arg = RegistryCode(from_currency_input)
          /\ step.divisors = <<>>
          /\ ~ResultDisplayed
          /\ exit_status = <<1>>
    /\ \A i \in DOMAIN step.divisors : step.divisors[i].n # 0
    /\ (/\ step.convert_called
        /\ HasRate(from_currency_input) /\ HasRate(to_currency_input)
        /\ RateOf(from_currency_input).n # 0
        /\ RateOf(to_currency_input).n = 0)
       => ResultDisplayed /\ Running

\* The source code USD has rate zero and the target code EUR has a rate.
C6_Witness ==
    /\ step.convert_called
    /\ from_currency_input = USD
    /\ to_currency_input = <<"e","u","r">>
    /\ rates[USD] = Fin(0, 1)
    /\ ZeroRate

-----------------------------------------------------------------------------
(* C7.  There is one fetch, at startup.  When the request fails, the body  *)
(* is not a JSON object, or its rates field is missing or empty, the       *)
(* process ends with exit status 1 without having prompted; otherwise the  *)
(* loop runs with the non-empty table the API sent, which no step changes. *)

FetchFailed ==
    \/ api_response.raises \in {"ConnectionError", "Timeout"}
    \/ api_response.status \in {404, 500}
    \/ api_response.body \in {"invalid", "invalid_plain", "array"}
    \/ "rates" \notin DOMAIN api_response.fields
    \/ api_response.fields["rates"] = EmptyTable

C7_FetchedOnceAtStartup ==
    /\ [](fetches = IF pc = "Startup" THEN 0 ELSE 1)
    /\ []((pc # "Startup" /\ api_response.raises # "KeyboardInterrupt" /\ FetchFailed) =>
            /\ pc = "Exited"
            /\ exit_status = <<1>>
            /\ iteration = 0
            /\ step.at = "Startup"
            /\ ErrorTexts # {})
    /\ [](iteration > 0 =>
            /\ rates # EmptyTable
            /\ DOMAIN rates # {}
            /\ rates = api_response.fields["rates"])
    /\ [][pc # "Startup" => rates' = rates /\ api_response' = api_response]_vars

\* The API answered with an empty rates object.
C7_Witness ==
    /\ pc = "Exited"
    /\ api_response.body = "object"
    /\ "rates" \in DOMAIN api_response.fields
    /\ api_response.fields["rates"] = EmptyTable
    /\ exit_status = <<1>>
    /\ iteration = 0

-----------------------------------------------------------------------------
(* C8.  When both codes are registered and have rates and the source rate  *)
(* is not zero, convert_currency returns amount / rates[X] * rates[Y],     *)
(* unrounded, and the result is displayed to two decimals: 100 USD is      *)
(* 85.00 EUR at {USD: 1.0, EUR: 0.85} and 10 USD is 1100.00 JPY at         *)
(* {USD: 1.0, JPY: 110.0}.                                                 *)

\* v = a / x * y, for finite a and nonzero x, by cross-multiplication
IsQuotientProduct(v, a, x, y) ==
    /\ v.kind = "fin"
    /\ v.n * (a.d * x.n * y.d) = v.d * (a.n * x.d * y.n)

DisplayedAmount == (CHOOSE b \in PrintedBoxes("success") : TRUE).arg.converted

C8_ConversionFormula ==
    (/\ step.convert_called
     /\ HasRate(from_currency_input) /\ HasRate(to_currency_input)
     /\ RateOf(from_currency_input).n # 0)
    => LET x == RateOf(from_currency_input)
           y == RateOf(to_currency_input)
       IN  /\ pc = "AckResult"
           /\ ResultDisplayed
           /\ amount.kind = "fin" => IsQuotientProduct(converted_amount, amount, x, y)
           /\ amount.kind = "inf" =>
                 converted_amount.kind = (IF y.n = 0 THEN "nan" ELSE "inf")
           /\ (amount = Fin(100, 1) /\ x = Fin(1, 1) /\ y = Fin(85, 100)) =>
                 DisplayedAmount = <<"8","5",".","0","0">>
           /\ (amount = Fin(10, 1) /\ x = Fin(1, 1) /\ y = Fin(110, 1)) =>
                 DisplayedAmount = <<"1","1","0","0",".","0","0">>
           /\ (amount = Fin(10, 1) /\ x = Fin(85, 100) /\ y = Fin(1, 1)) =>
                 /\ converted_amount = Fin(200, 17)
                 /\ DisplayedAmount = <<"1","1",".","7","6">>

\* 100 usd to eur at {USD: 1.0, EUR: 0.85}
C8_Witness ==
    /\ pc = "AckResult"
    /\ rates = (USD :> Fin(1, 1)) @@ (EUR :> Fin(85, 100))
    /\ amount = Fin(100, 1)
    /\ from_currency_input = <<"u","s","d">>
    /\ to_currency_input = <<"e","u","r">>
    /\ converted_amount = Fin(85, 1)

-----------------------------------------------------------------------------
(* C9.  A KeyboardInterrupt raised by the startup request, by any of the   *)
(* three prompts or by either acknowledgment is caught: the cancellation   *)
(* notice and the farewell are printed and the process ends with exit      *)
(* status 0.                                                               *)

Interrupted ==
    \/ api_response.raises = "KeyboardInterrupt"
    \/ last_input.ev = "KeyboardInterrupt"

C9_InterruptIsGraceful ==
    Interrupted =>
        /\ pc = "Exited"
        /\ exit_status = <<0>>
        /\ create_info_box("Operation cancelled by user") \in PrintedBoxes("info")
        /\ Farewell
        /\ step.printed[Len(step.printed)] = create_header(" GOODBYE! ")
        /\ ErrorTexts = {}

\* The interrupt arrived at the acknowledgment of a displayed result.
C9_Witness ==
    /\ last_input.ev = "KeyboardInterrupt"
    /\ step.at = "AckResult"
    /\ exit_status = <<0>>

-----------------------------------------------------------------------------
(* C10.  The codes are only checked by the conversion: a conversion error  *)
(* is only ever printed by the step that read an amount float() accepts.   *)
(* An amount it rejects, "exit" included, gives the invalid-amount error   *)
(* with the process still running, whatever the codes typed before it.     *)

C10_CodesCheckedAfterAmount ==
    /\ (UnsupportedCurrency \/ RateUnavailable \/ ZeroRate) =>
          /\ step.at = "AwaitingAmount"
          /\ last_input.ev = "line"
          /\ ParseFloat(last_input.text).ok
          /\ step.convert_called
    /\ step.convert_called => step.at = "AwaitingAmount"
    /\ (pc \in {"AwaitingToCurrency", "AwaitingAmount"}) => Running /\ ErrorTexts = {}
    /\ (/\ step.at = "AwaitingAmount"
        /\ last_input.ev = "line"
        /\ ~ParseFloat(last_input.text).ok \/ TypedExit)
       => /\ pc = "AckInvalidAmount"
          /\ Running
          /\ InvalidAmountReported
          /\ ~step.convert_called

\* XYZ is not registered; "exit" was typed as the amount.
C10_Witness ==
    /\ pc = "AckInvalidAmount"
    /\ from_currency_input = XYZ
    /\ last_input = Line(<<"e","x","i","t">>)
    /\ InvalidAmountReported

====
